---- MODULE Spec2Model ----
(***************************************************************************)
(* A model of xcp's single-file copy engine:                               *)
(*   libxcp/src/operations.rs  CopyHandle (new, copy_file, try_reflink,    *)
(*                             copy_sparse, copy_bytes, finalise_copy,     *)
(*                             Drop)                                       *)
(*   src/os/linux.rs           try_copy_file_range, copy_file_bytes,       *)
(*                             copy_file_offset, probably_sparse, lseek,   *)
(*                             next_sparse_segments                        *)
(*                                                                         *)
(* Files are sequences of cells of Unit bytes each.  Every length, offset  *)
(* and transfer count is in bytes and is a multiple of Unit.  A cell is    *)
(* either allocated ("data") or a hole; a hole reads as zero.              *)
(***************************************************************************)
EXTENDS Integers, Sequences, FiniteSets, TLC

\* ------------------------------------------------------------------ bounds
Unit == 256          \* bytes per modelled cell
MaxLen == 3          \* longest source file, in cells
MaxBlocks == 1       \* largest st_blocks the filesystem reports for a source
MaxBatch == 2        \* largest batch_size, in cells
MaxCalls == 4        \* the call counters saturate here
MaxStatSize == 1100  \* largest st_size drawn for the classifier alone
MaxStatBlocks == 3   \* largest st_blocks drawn for the classifier alone
MaxExtents == 65     \* most extents a mapped file holds: three batches
MaxLenTwo == 2       \* longest source when two handles run, in cells

\* ------------------------------------------------------ program constants
ST_NBLOCKSIZE == 512
FIEMAP_EXTENT_LAST == 1
PAGE_SIZE == 32

VARIABLES
    opts,        \* Arc<Opts>: [reflink, no_perms, fsync, batch_size]
    src,         \* source file content, one value per cell
    srcMap,      \* source allocation map: TRUE = data, FALSE = hole
    stBlocks,    \* st_blocks of the source
    dst,         \* destination file content
    dstMap,      \* destination allocation map
    metaLen,     \* CopyHandle.metadata.len(): source length at open
    inpos,       \* cursor of infd
    outpos,      \* cursor of outfd
    pc,          \* where the caller / the handle is
    result,      \* what copy_file returned
    pos,         \* copy_sparse: pos
    nextHole,    \* copy_sparse: next_hole of the segment being copied
    caller,      \* who called copy_bytes: "dense" or "sparse"
    cbLen,       \* copy_bytes: len
    written,     \* copy_bytes: written
    lastRet,     \* copy_bytes: result of the copy_file_bytes call just made
    call,        \* the last call of copy_file_bytes / copy_file_offset
    reflinkRet,  \* what try_reflink returned
    cloneCalls,  \* invocations of the clone primitive
    cloneRet,    \* what the clone primitive returned
    statCalls,   \* invocations of probably_sparse by copy_file
    segCalls,    \* invocations of next_sparse_segments
    cfbCalls,    \* invocations of copy_file_bytes
    updCalls,    \* invocations of updates.update
    reported,    \* sum of the byte counts given to updates.update
    fin,         \* finalisation at teardown: [ran, perms, sync, ok, logged]
    st,          \* classifier alone: the stat of the file given to it
    psRet,       \* classifier alone: what probably_sparse returned
    segs,        \* copy_sparse: <<pos, next_data, next_hole>> of each iteration
    fileExtents, \* map_extents: the extents the filesystem holds for the file
    reqShared,   \* map_extents: whether what the ioctl writes reaches req
    req,         \* map_extents: req (FiemapReq)
    extents,     \* map_extents: extents (the Vec being built)
    meRet,       \* map_extents: what it returned
    queries,     \* map_extents: fm_start and outcome of each query made
    other,       \* two handles: the state of the handle whose thread waits
    cur          \* two handles: the handle whose thread runs, 1 or 2

vars == <<opts, src, srcMap, stBlocks, dst, dstMap, metaLen, inpos, outpos, pc,
          result, pos, nextHole, caller, cbLen, written, lastRet, call,
          reflinkRet, cloneCalls, cloneRet, statCalls, segCalls, cfbCalls,
          updCalls, reported, fin, st, psRet, segs, fileExtents, reqShared,
          req, extents, meRet, queries, other, cur>>

\* The state of map_extents.
extVars == <<fileExtents, reqShared, req, extents, meRet, queries>>

\* ----------------------------------------------------------------- helpers
Min(a, b) == IF a < b THEN a ELSE b
Max(a, b) == IF a > b THEN a ELSE b

\* Result<u64> values
NoResult == [tag |-> "none", val |-> 0, err |-> ""]
Ok(v) == [tag |-> "ok", val |-> v, err |-> ""]
Err(e) == [tag |-> "err", val |-> 0, err |-> e]

Inc(c) == IF c < MaxCalls THEN c + 1 ELSE c

\* A history h with e noted at its end; like the counters it holds at most
\* MaxCalls entries.
Noted(h, e) == IF Len(h) < MaxCalls THEN Append(h, e) ELSE h

\* Byte length of a file.
Size(f) == Len(f) * Unit

\* Index of the cell holding byte offset off.
Cell(off) == (off \div Unit) + 1

\* All allocation maps of files of at most MaxLen cells.
Layouts == UNION {[1..n -> BOOLEAN] : n \in 0..MaxLen}

\* The content of a source with allocation map m: a data cell holds its own
\* index (so a byte copied to the wrong offset shows), a hole reads as zero.
Content(m) == [i \in 1..Len(m) |-> IF m[i] THEN i ELSE 0]

Zeros(n) == [i \in 1..n |-> 0]
Holes(n) == [i \in 1..n |-> FALSE]

\* dst after n bytes of s, read from offset ip, are written at offset op.
WriteRange(d, s, ip, op, n) ==
    LET k == n \div Unit
        o == op \div Unit
        i0 == ip \div Unit
    IN  [i \in 1..(IF k = 0 THEN Len(d) ELSE Max(Len(d), o + k)) |->
            IF o < i /\ i <= o + k THEN s[i - o + i0]
            ELSE IF i <= Len(d) THEN d[i] ELSE 0]

\* The allocation map after n bytes are written at offset op.
MarkRange(m, op, n) ==
    LET k == n \div Unit
        o == op \div Unit
    IN  [i \in 1..(IF k = 0 THEN Len(m) ELSE Max(Len(m), o + k)) |->
            IF o < i /\ i <= o + k THEN TRUE
            ELSE IF i <= Len(m) THEN m[i] ELSE FALSE]

\* ------------------------------------------------- kernel copy primitive
Errnos == {"ENOSYS", "EPERM", "EXDEV", "EIO", "EINVAL"}

\* Byte counts copy_file_range(2) may return for a request of `bytes` bytes with
\* avail bytes between the source offset and the end of the source: any
\* positive count up to both, and 0 only at end of file or for an empty request.
TransferCounts(bytes, avail) ==
    LET m == Min(bytes, avail)
    IN  IF m <= 0 THEN {0} ELSE {k * Unit : k \in 1..(m \div Unit)}

\* What rustix copy_file_range can return.
KernelOutcomes(bytes, avail) ==
    {Ok(n) : n \in TransferCounts(bytes, avail)} \cup {Err(e) : e \in Errnos}

\* What the user-space copy (copy_bytes_uspace, copy_range_uspace) can return.
UspaceOutcomes(bytes, avail) ==
    {Ok(n) : n \in TransferCounts(bytes, avail)} \cup {Err("EIO")}

\* Option<Result<usize>>
None == [some |-> FALSE, res |-> NoResult]
Some(r) == [some |-> TRUE, res |-> r]

\* A classification that also takes EINVAL for "use the fallback".
TryCopyFileRange_Einval(cfr_ret) ==
    IF cfr_ret.tag = "ok" THEN Some(cfr_ret)
    ELSE IF cfr_ret.err \in {"ENOSYS", "EPERM", "EXDEV", "EINVAL"} THEN None
    ELSE Some(cfr_ret)

\* try_copy_file_range: the classification of copy_file_range's result.
TryCopyFileRange(cfr_ret) ==
    IF cfr_ret.tag = "ok" THEN Some(cfr_ret)
    ELSE IF cfr_ret.err \in {"ENOSYS", "EPERM", "EXDEV"} THEN None
    ELSE Some(cfr_ret)

\* copy_file_bytes: try_copy_file_range(..).unwrap_or_else(copy_bytes_uspace).
\* us_ret is what the user-space copy returns if it is run.
CopyFileBytes(cfr_ret, us_ret) ==
    LET t == TryCopyFileRange(cfr_ret)
    IN  IF t.some THEN [ret |-> t.res, uspace |-> FALSE]
        ELSE [ret |-> us_ret, uspace |-> TRUE]

\* copy_file_offset: the same with copy_range_uspace as the fallback.
CopyFileOffset(cfr_ret, us_ret) ==
    LET t == TryCopyFileRange(cfr_ret)
    IN  IF t.some THEN [ret |-> t.res, uspace |-> FALSE]
        ELSE [ret |-> us_ret, uspace |-> TRUE]

NoCall ==
    [fn |-> "none", bytes |-> 0, kernel |-> NoResult, uspace |-> FALSE,
     ret |-> NoResult]

\* ---------------------------------------------------- sparseness classifier
\* A classifier that compares bytes rather than whole 512-byte units.
ProbablySparse_Bytes(blocks, size) == blocks * ST_NBLOCKSIZE < size

\* probably_sparse on a file whose metadata reads (blocks, size).
ProbablySparse(blocks, size) == blocks < size \div ST_NBLOCKSIZE

\* ---------------------------------------------------------- segment locator
\* SeekOff
EOF == -1

\* lseek(fd, SEEK_DATA, p) on a file with allocation map m: the first offset
\* >= p inside data, or ENXIO (EOF here) when p is at or past the end or no
\* data follows p.
SeekData(m, p) ==
    LET c == {i \in 1..Len(m) : i >= Cell(p) /\ m[i]}
    IN  IF p >= Size(m) \/ c = {} THEN EOF
        ELSE LET i == CHOOSE x \in c : \A y \in c : x <= y
             IN  Max(p, (i - 1) * Unit)

\* lseek(fd, SEEK_HOLE, p): the first offset >= p inside a hole, the end of
\* the file counting as one; ENXIO when p is at or past the end.
SeekHole(m, p) ==
    LET c == {i \in 1..Len(m) : i >= Cell(p) /\ ~m[i]}
    IN  IF p >= Size(m) THEN EOF
        ELSE IF c = {} THEN Size(m)
        ELSE LET i == CHOOSE x \in c : \A y \in c : x <= y
             IN  Max(p, (i - 1) * Unit)

\* A next_sparse_segments that takes "no such offset" for the offset it
\* asked about.
NextSparseSegments_EofAsAsked(m, p) ==
    LET d == SeekData(m, p)
        next_data == IF d = EOF THEN p ELSE d
        h == SeekHole(m, next_data)
        next_hole == IF h = EOF THEN next_data ELSE h
    IN  <<next_data, next_hole>>

\* A next_sparse_segments that looks for the hole from pos, not from the
\* data it found.
NextSparseSegments_HoleFromPos(m, p) ==
    LET d == SeekData(m, p)
        next_data == IF d = EOF THEN Size(m) ELSE d
        h == SeekHole(m, p)
        next_hole == IF h = EOF THEN Size(m) ELSE h
    IN  <<next_data, next_hole>>

\* next_sparse_segments on a source with allocation map m, no seek failing:
\* <<next_data, next_hole>>.
NextSparseSegments(m, p) ==
    LET d == SeekData(m, p)
        next_data == IF d = EOF THEN Size(m) ELSE d
        h == SeekHole(m, next_data)
        next_hole == IF h = EOF THEN Size(m) ELSE h
    IN  <<next_data, next_hole>>

\* ------------------------------------------------------------ reflink
Modes == {"Always", "Auto", "Never"}

\* What the clone primitive reflink(infd, outfd) can return: Ok(true) (1),
\* Ok(false) (0: cloning is not supported for this pair), or an I/O error.
ReflinkOutcomes == {Ok(1), Ok(0), Err("EIO")}

\* A try_reflink that falls back under Always as it does under Auto.
TryReflink_AlwaysFallsBack(mode, rl) ==
    IF mode \in {"Always", "Auto"} THEN
        [ret |-> IF rl.tag = "err" THEN rl
                 ELSE IF rl.val = 1 THEN Ok(1)
                 ELSE Ok(0),
         cloned |-> TRUE]
    ELSE [ret |-> Ok(0), cloned |-> FALSE]

\* A try_reflink that attempts the clone under every mode and treats Never as
\* Auto.
TryReflink_NeverClones(mode, rl) ==
    [ret |-> IF rl.tag = "err" THEN rl
             ELSE IF rl.val = 1 THEN Ok(1)
             ELSE IF mode = "Always" THEN Err("ReflinkFailed(infd->outfd)")
             ELSE Ok(0),
     cloned |-> TRUE]

\* try_reflink under mode, rl being what the clone primitive returns if it is
\* called: the Result<bool> returned and whether the primitive was called.
TryReflink(mode, rl) ==
    IF mode \in {"Always", "Auto"} THEN
        [ret |-> IF rl.tag = "err" THEN rl
                 ELSE IF rl.val = 1 THEN Ok(1)
                 ELSE IF mode = "Always" THEN Err("ReflinkFailed(infd->outfd)")
                 ELSE Ok(0),
         cloned |-> TRUE]
    ELSE [ret |-> Ok(0), cloned |-> FALSE]

\* ------------------------------------------------------------ finalisation
NoFin == [ran |-> FALSE, perms |-> FALSE, sync |-> FALSE, ok |-> TRUE,
          logged |-> FALSE]

\* finalise_copy under options o; p and s say whether copy_permissions and
\* sync succeed if they are called.  Which of them were called, and whether
\* finalise_copy returned Ok.
FinaliseCopy(o, p, s) ==
    IF ~o.no_perms /\ ~p THEN [perms |-> TRUE, sync |-> FALSE, ok |-> FALSE]
    ELSE IF o.fsync THEN [perms |-> ~o.no_perms, sync |-> TRUE, ok |-> s]
    ELSE [perms |-> ~o.no_perms, sync |-> FALSE, ok |-> TRUE]

\* ================================================================ the handle
\* ------------------------------------------------------------ map_extents
\* A FiemapExtent, by the fields map_extents reads.
FiemapExtent(l, n, f) == [fe_logical |-> l, fe_length |-> n, fe_flags |-> f]

\* FiemapReq::default(), by the fields map_extents and the kernel use.
DefaultReq ==
    [fm_start |-> 0, fm_mapped_extents |-> 0, fm_extent_count |-> PAGE_SIZE,
     fm_extents |-> [i \in 1..PAGE_SIZE |-> FiemapExtent(0, 0, 0)]]

\* A test of the flag that never finds it.
HasLastFlag_Never(f) == FALSE

\* fe_flags & FIEMAP_EXTENT_LAST != 0
HasLastFlag(f) == (f \div FIEMAP_EXTENT_LAST) % 2 = 1

\* What FS_IOC_FIEMAP maps for a file holding the extents fx: those reaching
\* past fm_start, in order, as many as the request has room for.
Fiemap(fx, fm_start, fm_extent_count) ==
    LET hit == SelectSeq(fx, LAMBDA e : e.fe_logical + e.fe_length > fm_start)
    IN  SubSeq(hit, 1, Min(Len(hit), fm_extent_count))

\* The request as the kernel leaves it after mapping the extents got.
Filled(r, got) ==
    [r EXCEPT !.fm_mapped_extents = Len(got),
              !.fm_extents = [i \in 1..PAGE_SIZE |->
                                 IF i <= Len(got) THEN got[i] ELSE @[i]]]

\* What a query can give besides success.
FiemapErrnos == {"EOPNOTSUPP", "EIO", "EBADF"}

\* Result<Option<Vec<Range<u64>>>>
MeRunning == [tag |-> "none", some |-> FALSE, val |-> <<>>, err |-> ""]
MeNone == [tag |-> "ok", some |-> FALSE, val |-> <<>>, err |-> ""]
MeSome(v) == [tag |-> "ok", some |-> TRUE, val |-> v, err |-> ""]
MeErr(e) == [tag |-> "err", some |-> FALSE, val |-> <<>>, err |-> e]

QueryReturn_AllUnsupported(r) == IF r = "ok" THEN MeRunning ELSE MeNone

\* The match on the ioctl's result: what map_extents returns there, or
\* MeRunning when it goes on.
QueryReturn(r) ==
    IF r = "EOPNOTSUPP" THEN MeNone
    ELSE IF r # "ok" THEN MeErr(r)
    ELSE MeRunning

\* start..end
Range(a, b) == [start |-> a, end |-> b]

\* extents after the for loop has pushed the extents rq holds.
Pushed(ext, rq) ==
    ext \o [i \in 1..rq.fm_mapped_extents |->
               Range(rq.fm_extents[i].fe_logical,
                     rq.fm_extents[i].fe_logical + rq.fm_extents[i].fe_length)]

ExtQuiet ==
    /\ fileExtents = <<>> /\ reqShared = FALSE /\ req = DefaultReq
    /\ extents = <<>> /\ meRet = MeRunning /\ queries = <<>>

\* There is no second handle.
NoOther == [pc |-> "none"]

Alone == other = NoOther /\ cur = 1

BatchSizes == {k * Unit : k \in 1..MaxBatch}

OptsSet == [reflink : Modes, no_perms : BOOLEAN, fsync : BOOLEAN,
            batch_size : BatchSizes]

\* What the destination path holds before the copy: nothing, or stale bytes.
OldDst == {<<>>, <<9, 9>>}

NoStat == [blocks |-> 0, size |-> 0]

Quiet ==
    /\ pos = 0 /\ nextHole = 0 /\ caller = "none" /\ cbLen = 0 /\ written = 0
    /\ lastRet = 0 /\ call = NoCall /\ reflinkRet = NoResult
    /\ cloneCalls = 0 /\ statCalls = 0 /\ segCalls = 0 /\ cfbCalls = 0
    /\ cloneRet = NoResult
    /\ updCalls = 0 /\ reported = 0 /\ fin = NoFin /\ result = NoResult
    /\ inpos = 0 /\ outpos = 0 /\ metaLen = 0
    /\ segs = <<>>

\* A caller is about to build a CopyHandle for a source and a destination
\* path.
Init ==
    /\ opts \in OptsSet
    /\ srcMap \in Layouts
    /\ src = Content(srcMap)
    /\ stBlocks \in 0..MaxBlocks
    /\ dst \in OldDst
    /\ dstMap = [i \in 1..Len(dst) |-> TRUE]
    /\ pc = "start"
    /\ st = NoStat /\ psRet = NoResult
    /\ Quiet
    /\ ExtQuiet
    /\ Alone

\* A constructor that hands out the handle without sizing the destination.
New_NoAllocate ==
    /\ pc = "start"
    /\ \/ /\ pc' = "ready"
          /\ metaLen' = Size(src)
          /\ dst' = <<>>
          /\ dstMap' = <<>>
       \/ /\ pc' = "nohandle"       \* open, metadata or create failed
          /\ UNCHANGED <<metaLen, dst, dstMap>>
       \/ /\ pc' = "nohandle"       \* allocate_file failed
          /\ dst' = <<>> /\ dstMap' = <<>>
          /\ UNCHANGED metaLen
    /\ UNCHANGED <<extVars, other, cur, segs, opts, src, srcMap, stBlocks, inpos, outpos, result, pos,
                   nextHole, caller, cbLen, written, lastRet, call, reflinkRet,
                   cloneCalls, cloneRet, statCalls, segCalls, cfbCalls, updCalls,
                   reported, fin, st, psRet>>

\* CopyHandle::new.  File::open, metadata, File::create and allocate_file may
\* each fail; File::create truncates the destination and allocate_file sizes
\* it to the source's length, leaving it all hole.
New ==
    /\ pc = "start"
    /\ \/ /\ pc' = "ready"
          /\ metaLen' = Size(src)
          /\ dst' = Zeros(Len(src))
          /\ dstMap' = Holes(Len(src))
       \/ /\ pc' = "nohandle"       \* open, metadata or create failed
          /\ UNCHANGED <<metaLen, dst, dstMap>>
       \/ /\ pc' = "nohandle"       \* allocate_file failed
          /\ dst' = <<>> /\ dstMap' = <<>>
          /\ UNCHANGED metaLen
    /\ UNCHANGED <<extVars, other, cur, segs, opts, src, srcMap, stBlocks, inpos, outpos, result, pos,
                   nextHole, caller, cbLen, written, lastRet, call, reflinkRet,
                   cloneCalls, cloneRet, statCalls, segCalls, cfbCalls, updCalls,
                   reported, fin, st, psRet>>

\* copy_file returns r.
Return(r) ==
    /\ result' = r
    /\ pc' = "returned"

\* A copy_bytes that counts on from the written of the call before.
EnterCopyBytes_KeepsWritten(len, who) ==
    /\ pc' = "copy_bytes"
    /\ cbLen' = len
    /\ written' = written
    /\ caller' = who
    /\ UNCHANGED result

\* copy_bytes(len) is entered by who ("dense": copy_file, "sparse":
\* copy_sparse); len > 0, so the loop body runs.
EnterCopyBytes(len, who) ==
    /\ pc' = "copy_bytes"
    /\ cbLen' = len
    /\ written' = 0
    /\ caller' = who
    /\ UNCHANGED result

\* A copy_file that ignores a successful clone.
Cloned_Never(r) == FALSE

\* copy_file, line 133: the early return taken on what try_reflink returned.
Cloned(r) == r.tag = "ok" /\ r.val = 1

\* copy_file up to the first loop: try_reflink, probably_sparse, and the
\* entry into copy_sparse or copy_bytes.  A clone that succeeds makes the
\* destination share the source's blocks.
CopyFile ==
    /\ pc = "ready"
    /\ \E rl \in ReflinkOutcomes :
        LET t == TryReflink(opts.reflink, rl) IN
        /\ reflinkRet' = t.ret
        /\ cloneCalls' = IF t.cloned THEN cloneCalls + 1 ELSE cloneCalls
        /\ cloneRet' = IF t.cloned THEN rl ELSE cloneRet
        /\ dst' = IF t.cloned /\ rl = Ok(1) THEN src ELSE dst
        /\ dstMap' = IF t.cloned /\ rl = Ok(1) THEN srcMap ELSE dstMap
        /\ \/ /\ t.ret.tag = "err"                    \* try_reflink()?
              /\ Return(t.ret)
              /\ UNCHANGED <<statCalls, pos, caller, cbLen, written>>
           \/ /\ t.ret.tag = "ok"                     \* cloned
              /\ Cloned(t.ret)
              /\ Return(Ok(metaLen))
              /\ UNCHANGED <<statCalls, pos, caller, cbLen, written>>
           \/ /\ t.ret.tag = "ok"                     \* fd.metadata()? fails
              /\ ~Cloned(t.ret)
              /\ statCalls' = statCalls + 1
              /\ Return(Err("EIO"))
              /\ UNCHANGED <<pos, caller, cbLen, written>>
           \/ /\ t.ret.tag = "ok"                     \* copy_sparse
              /\ ~Cloned(t.ret)
              /\ statCalls' = statCalls + 1
              /\ ProbablySparse(stBlocks, Size(src))
              /\ IF 0 < metaLen
                 THEN pc' = "copy_sparse" /\ UNCHANGED result
                 ELSE Return(Ok(metaLen))
              /\ pos' = 0
              /\ UNCHANGED <<caller, cbLen, written>>
           \/ /\ t.ret.tag = "ok"                     \* copy_bytes(len)
              /\ ~Cloned(t.ret)
              /\ statCalls' = statCalls + 1
              /\ ~ProbablySparse(stBlocks, Size(src))
              /\ IF 0 < metaLen
                 THEN EnterCopyBytes(metaLen, "dense")
                 ELSE Return(Ok(0)) /\ UNCHANGED <<caller, cbLen, written>>
              /\ UNCHANGED pos
    /\ UNCHANGED <<extVars, other, cur, segs, opts, src, srcMap, stBlocks, metaLen, inpos, outpos,
                   nextHole, lastRet, call, segCalls, cfbCalls, updCalls,
                   reported, fin, st, psRet>>

\* A copy_sparse that returns after its first segment.
SparseAdvance_Once(p) ==
    /\ pos' = p
    /\ Return(Ok(metaLen))

\* copy_sparse has copied up to p: the loop test and, past the last segment,
\* the return of copy_file.
SparseAdvance(p) ==
    /\ pos' = p
    /\ IF p < metaLen
       THEN pc' = "copy_sparse" /\ UNCHANGED result
       ELSE Return(Ok(metaLen))

\* One iteration of copy_sparse up to the loop of copy_bytes:
\* next_sparse_segments, which leaves both cursors at next_data, and the call
\* copy_bytes(next_hole - next_data).  When one of its seeks (or metadata())
\* fails, the seeks already done have left infd where they found it, at
\* next_data or at next_hole.
SparseSegment ==
    /\ pc = "copy_sparse"
    /\ segCalls' = Inc(segCalls)
    /\ \/ /\ Return(Err("EIO"))
          /\ inpos' \in {inpos} \cup {NextSparseSegments(srcMap, pos)[i] : i \in 1..2}
          /\ UNCHANGED <<outpos, pos, nextHole, caller, cbLen, written, segs>>
       \/ LET seg == NextSparseSegments(srcMap, pos)
              next_data == seg[1]
              next_hole == seg[2]
          IN  /\ inpos' = next_data
              /\ outpos' = next_data
              /\ nextHole' = next_hole
              /\ segs' = Noted(segs, [pos |-> pos, next_data |-> next_data,
                                      next_hole |-> next_hole])
              /\ IF next_hole - next_data > 0
                 THEN EnterCopyBytes(next_hole - next_data, "sparse")
                      /\ UNCHANGED pos
                 ELSE SparseAdvance(next_hole)
                      /\ UNCHANGED <<caller, cbLen, written>>
    /\ UNCHANGED <<extVars, other, cur, opts, src, srcMap, stBlocks, dst, dstMap, metaLen, lastRet,
                   call, reflinkRet, cloneCalls, cloneRet, statCalls, cfbCalls, updCalls,
                   reported, fin, st, psRet>>

\* The effect of r, returned by a copy at the cursors, on the files.
TransferAtCursors(r) ==
    IF r.tag = "ok"
    THEN /\ dst' = WriteRange(dst, src, inpos, outpos, r.val)
         /\ dstMap' = MarkRange(dstMap, outpos, r.val)
         /\ inpos' = inpos + r.val
         /\ outpos' = outpos + r.val
    ELSE UNCHANGED <<dst, dstMap, inpos, outpos>>

\* A copy_bytes that stops after its first chunk.
MoreToCopy_Once(w, len) == w = 0

\* copy_bytes, line 85: the loop test.
MoreToCopy(w, len) == w < len

\* A bytes_to_copy that asks for a whole batch whatever remains.
BytesToCopy_WholeBatch(len, w, batch_size) == batch_size

\* A bytes_to_copy that asks for all that remains, whatever the batch size.
BytesToCopy_NoBatch(len, w, batch_size) == len - w

\* copy_bytes, line 86: bytes_to_copy.
BytesToCopy(len, w, batch_size) == Min(len - w, batch_size)

\* copy_bytes, loop body up to the update: one call of copy_file_bytes.
CopyBytesCall ==
    /\ pc = "copy_bytes"
    /\ LET bytes_to_copy == BytesToCopy(cbLen, written, opts.batch_size)
           avail == Max(0, Size(src) - inpos)
       IN  \E k \in KernelOutcomes(bytes_to_copy, avail),
              u \in UspaceOutcomes(bytes_to_copy, avail) :
            LET c == CopyFileBytes(k, u) IN
            /\ call' = [fn |-> "copy_file_bytes", bytes |-> bytes_to_copy,
                        kernel |-> k, uspace |-> c.uspace, ret |-> c.ret]
            /\ TransferAtCursors(c.ret)
            /\ IF c.ret.tag = "ok"
               THEN /\ lastRet' = c.ret.val
                    /\ written' = written + c.ret.val
                    /\ pc' = "update"
                    /\ UNCHANGED result
               ELSE /\ Return(c.ret)
                    /\ UNCHANGED <<lastRet, written>>
    /\ cfbCalls' = Inc(cfbCalls)
    /\ UNCHANGED <<extVars, other, cur, segs, opts, src, srcMap, stBlocks, metaLen, pos, nextHole, caller,
                   cbLen, reflinkRet, cloneCalls, cloneRet, statCalls, segCalls,
                   updCalls, reported, fin, st, psRet>>

\* copy_bytes, rest of the loop body: updates.update(Ok(result))?, the loop
\* test, and the return to copy_file or copy_sparse.
Update ==
    /\ pc = "update"
    /\ updCalls' = Inc(updCalls)
    /\ reported' = reported + lastRet
    /\ \/ /\ Return(Err("UpdateFailed"))
          /\ UNCHANGED pos
       \/ /\ MoreToCopy(written, cbLen)
          /\ pc' = "copy_bytes"
          /\ UNCHANGED <<result, pos>>
       \/ /\ ~MoreToCopy(written, cbLen)
          /\ caller = "dense"
          /\ Return(Ok(written))
          /\ UNCHANGED pos
       \/ /\ ~MoreToCopy(written, cbLen)
          /\ caller = "sparse"
          /\ SparseAdvance(nextHole)
    /\ UNCHANGED <<extVars, other, cur, segs, opts, src, srcMap, stBlocks, dst, dstMap, metaLen, inpos,
                   outpos, nextHole, caller, cbLen, written, lastRet, call,
                   reflinkRet, cloneCalls, cloneRet, statCalls, segCalls, cfbCalls, fin,
                   st, psRet>>

\* A teardown that lets a finalisation error replace the copy's result.
Drop_Masks ==
    /\ pc \in {"ready", "returned"}
    /\ \E p \in BOOLEAN, s \in BOOLEAN :
        LET f == FinaliseCopy(opts, p, s) IN
        /\ fin' = [ran |-> TRUE, perms |-> f.perms, sync |-> f.sync,
                   ok |-> f.ok, logged |-> ~f.ok]
        /\ result' = IF f.ok THEN result ELSE Err("EIO")
    /\ pc' = "dropped"
    /\ UNCHANGED <<extVars, other, cur, segs, opts, src, srcMap, stBlocks, dst, dstMap, metaLen, inpos,
                   outpos, pos, nextHole, caller, cbLen, written,
                   lastRet, call, reflinkRet, cloneCalls, cloneRet, statCalls,
                   segCalls, cfbCalls, updCalls, reported, st, psRet>>

\* Drop for CopyHandle: finalise_copy, its error logged.  The handle is
\* dropped before copy_file is called or after it has returned.
Drop ==
    /\ pc \in {"ready", "returned"}
    /\ \E p \in BOOLEAN, s \in BOOLEAN :
        LET f == FinaliseCopy(opts, p, s) IN
        fin' = [ran |-> TRUE, perms |-> f.perms, sync |-> f.sync, ok |-> f.ok,
                logged |-> ~f.ok]
    /\ pc' = "dropped"
    /\ UNCHANGED <<extVars, other, cur, segs, opts, src, srcMap, stBlocks, dst, dstMap, metaLen, inpos,
                   outpos, result, pos, nextHole, caller, cbLen, written,
                   lastRet, call, reflinkRet, cloneCalls, cloneRet, statCalls, segCalls,
                   cfbCalls, updCalls, reported, st, psRet>>

Next == New \/ CopyFile \/ SparseSegment \/ CopyBytesCall \/ Update \/ Drop

Spec == Init /\ [][Next]_vars

\* ------------------------------------------- a source that shrinks under us
\* Another process truncates the source after the handle has taken its
\* metadata snapshot.
Truncate ==
    /\ pc \in {"ready", "copy_sparse", "copy_bytes", "update"}
    /\ Size(src) = metaLen
    /\ \E n \in 0..(Len(src) - 1) :
        /\ src' = SubSeq(src, 1, n)
        /\ srcMap' = SubSeq(srcMap, 1, n)
    /\ UNCHANGED <<extVars, other, cur, segs, opts, stBlocks, dst, dstMap, metaLen, inpos, outpos, pc,
                   result, pos, nextHole, caller, cbLen, written, lastRet, call,
                   reflinkRet, cloneCalls, cloneRet, statCalls, segCalls, cfbCalls,
                   updCalls, reported, fin, st, psRet>>

\* Finalisation plays no part in the race: it is switched off here.
InitRace == Init /\ opts.no_perms /\ ~opts.fsync /\ dst = <<>>

NextRace == Next \/ Truncate

\* The thread that owns the handle keeps running; nothing obliges another
\* process to truncate the source.
FairSpecRace == InitRace /\ [][NextRace]_vars /\ WF_vars(Next)

\* ======================================== the primitives, called on their own
Offsets(f) == {k * Unit : k \in 0..Len(f)}

Requests == {k * Unit : k \in 0..MaxLen}

Stale(n) == [i \in 1..n |-> 9]

AnyOpts == [reflink |-> "Never", no_perms |-> TRUE, fsync |-> FALSE,
            batch_size |-> Unit]

\* A source and a destination, open, with their cursors somewhere.
InitPrim ==
    /\ opts = AnyOpts
    /\ srcMap \in Layouts
    /\ src = Content(srcMap)
    /\ stBlocks = 0
    /\ dst \in {Zeros(n) : n \in 0..MaxLen} \cup {Stale(n) : n \in 1..MaxLen}
    /\ dstMap = [i \in 1..Len(dst) |-> dst[i] # 0]
    /\ pc = "prim"
    /\ st = NoStat /\ psRet = NoResult
    /\ pos = 0 /\ nextHole = 0 /\ caller = "none" /\ cbLen = 0 /\ written = 0
    /\ lastRet = 0 /\ call = NoCall /\ reflinkRet = NoResult
    /\ cloneCalls = 0 /\ statCalls = 0 /\ segCalls = 0 /\ cfbCalls = 0
    /\ cloneRet = NoResult
    /\ updCalls = 0 /\ reported = 0 /\ fin = NoFin /\ result = NoResult
    /\ metaLen = Size(src)
    /\ segs = <<>>
    /\ ExtQuiet
    /\ Alone
    /\ inpos \in Offsets(src)
    /\ outpos \in Offsets(dst)

\* A copy at an offset that works at the cursors and moves them.
TransferAtOffset_AtCursors(r, off) == TransferAtCursors(r)

\* The effect of r, returned by a copy at offset off of both files.
TransferAtOffset(r, off) ==
    /\ IF r.tag = "ok"
       THEN /\ dst' = WriteRange(dst, src, off, off, r.val)
            /\ dstMap' = MarkRange(dstMap, off, r.val)
       ELSE UNCHANGED <<dst, dstMap>>
    /\ UNCHANGED <<inpos, outpos>>

\* copy_file_bytes(infd, outfd, bytes)
PrimCopyFileBytes ==
    /\ pc = "prim"
    /\ \E bytes \in Requests :
        LET avail == Max(0, Size(src) - inpos) IN
        \E k \in KernelOutcomes(bytes, avail), u \in UspaceOutcomes(bytes, avail) :
            LET c == CopyFileBytes(k, u) IN
            /\ call' = [fn |-> "copy_file_bytes", bytes |-> bytes,
                        kernel |-> k, uspace |-> c.uspace, ret |-> c.ret]
            /\ TransferAtCursors(c.ret)
            /\ cbLen' = bytes
    /\ pc' = "primdone"
    /\ UNCHANGED <<extVars, other, cur, segs, opts, src, srcMap, stBlocks, metaLen, result, pos, nextHole,
                   caller, written, lastRet, reflinkRet, cloneCalls, cloneRet, statCalls,
                   segCalls, cfbCalls, updCalls, reported, fin, st, psRet>>

\* copy_file_offset(infd, outfd, bytes, off)
PrimCopyFileOffset ==
    /\ pc = "prim"
    /\ \E bytes \in Requests, off \in Offsets(src) :
        LET avail == Max(0, Size(src) - off) IN
        \E k \in KernelOutcomes(bytes, avail), u \in UspaceOutcomes(bytes, avail) :
            LET c == CopyFileOffset(k, u) IN
            /\ call' = [fn |-> "copy_file_offset", bytes |-> bytes,
                        kernel |-> k, uspace |-> c.uspace, ret |-> c.ret]
            /\ TransferAtOffset(c.ret, off)
            /\ cbLen' = bytes
            /\ pos' = off
    /\ pc' = "primdone"
    /\ UNCHANGED <<extVars, other, cur, segs, opts, src, srcMap, stBlocks, metaLen, result, nextHole,
                   caller, written, lastRet, reflinkRet, cloneCalls, cloneRet, statCalls,
                   segCalls, cfbCalls, updCalls, reported, fin, st, psRet>>

\* next_sparse_segments(infd, outfd, p), for p anywhere up to one cell past
\* the longest file.  A seek or metadata() that fails returns its error,
\* with infd where the seeks before it left it and outfd not yet moved.
PrimNextSparseSegments ==
    /\ pc = "prim"
    /\ \E p \in {k * Unit : k \in 0..(MaxLen + 1)} :
        LET seg == NextSparseSegments(srcMap, p) IN
        /\ pos' = p
        /\ \/ /\ call' = [fn |-> "next_sparse_segments", bytes |-> 0,
                           kernel |-> NoResult, uspace |-> FALSE,
                           ret |-> Ok(0)]
              /\ segs' = Noted(segs, [pos |-> p, next_data |-> seg[1],
                                      next_hole |-> seg[2]])
              /\ nextHole' = seg[2]
              /\ inpos' = seg[1]
              /\ outpos' = seg[1]
           \/ /\ call' = [fn |-> "next_sparse_segments", bytes |-> 0,
                           kernel |-> NoResult, uspace |-> FALSE,
                           ret |-> Err("EIO")]
              /\ inpos' \in {inpos, seg[1], seg[2]}
              /\ UNCHANGED <<segs, nextHole, outpos>>
    /\ pc' = "primdone"
    /\ UNCHANGED <<extVars, other, cur, opts, src, srcMap, stBlocks, dst,
                   dstMap, metaLen, result, caller, cbLen, written, lastRet,
                   reflinkRet, cloneCalls, cloneRet, statCalls, segCalls,
                   cfbCalls, updCalls, reported, fin, st, psRet>>

NextPrim == PrimCopyFileBytes \/ PrimCopyFileOffset \/ PrimNextSparseSegments

SpecPrim == InitPrim /\ [][NextPrim]_vars

\* ============================================== the classifier, on its own
\* A file whose metadata reads any block count and any byte length.
InitStat ==
    /\ st \in [blocks : 0..MaxStatBlocks, size : 0..MaxStatSize]
    /\ psRet = NoResult
    /\ pc = "stat"
    /\ opts = AnyOpts
    /\ src = <<>> /\ srcMap = <<>> /\ stBlocks = 0 /\ dst = <<>> /\ dstMap = <<>>
    /\ Quiet
    /\ ExtQuiet
    /\ Alone

\* probably_sparse(fd): Ok(1) for true, Ok(0) for false, or the error of
\* fd.metadata().
PrimProbablySparse ==
    /\ pc = "stat"
    /\ \/ psRet' = Ok(IF ProbablySparse(st.blocks, st.size) THEN 1 ELSE 0)
       \/ psRet' = Err("EIO")
    /\ pc' = "statdone"
    /\ UNCHANGED <<extVars, other, cur, segs, opts, src, srcMap, stBlocks, dst, dstMap, metaLen, inpos,
                   outpos, result, pos, nextHole, caller, cbLen, written,
                   lastRet, call, reflinkRet, cloneCalls, cloneRet, statCalls, segCalls,
                   cfbCalls, updCalls, reported, fin, st>>

NextStat == PrimProbablySparse

SpecStat == InitStat /\ [][NextStat]_vars

\* ================================================= map_extents, on its own
\* A file of k extents of one cell each, the first at byte `first`, with
\* `gap` bytes of hole between neighbours; the filesystem flags the last
\* extent or leaves it unflagged.
ExtentsOf(k, first, gap, flagged) ==
    [i \in 1..k |->
        FiemapExtent(first + (i - 1) * (Unit + gap), Unit,
                     IF i = k /\ flagged THEN FIEMAP_EXTENT_LAST ELSE 0)]

\* map_extents(fd) is entered: req is the default request and extents is
\* empty.  ioctl(fd, req) takes req by value, and the reference
\* output_from_ptr makes from the pointer the kernel wrote through is
\* dropped by `Ok(_)`: whether the loop's req holds what the kernel wrote is
\* reqShared.
InitExt ==
    /\ fileExtents \in {ExtentsOf(k, first, gap, flagged) :
                           k \in 0..MaxExtents, first \in {0, Unit},
                           gap \in {0, Unit}, flagged \in BOOLEAN}
    /\ reqShared \in BOOLEAN
    /\ req = DefaultReq
    /\ extents = <<>> /\ meRet = MeRunning /\ queries = <<>>
    /\ pc = "map_extents"
    /\ opts = AnyOpts
    /\ src = <<>> /\ srcMap = <<>> /\ stBlocks = 0 /\ dst = <<>> /\ dstMap = <<>>
    /\ st = NoStat /\ psRet = NoResult
    /\ Quiet
    /\ Alone

\* One turn of the loop of map_extents: the query, the match on its result,
\* the test for an empty answer, the pushes, the test of the last extent's
\* flag, and the move of fm_start.
MapExtentsQuery ==
    /\ pc = "map_extents"
    /\ \E r \in {"ok"} \cup FiemapErrnos :
         LET got == Fiemap(fileExtents, req.fm_start, req.fm_extent_count)
             seen == IF r = "ok" /\ reqShared THEN Filled(req, got) ELSE req
             last == seen.fm_extents[seen.fm_mapped_extents]
         IN  /\ queries' = Append(queries, [fm_start |-> req.fm_start, ret |-> r])
             /\ IF QueryReturn(r) # MeRunning
                THEN /\ meRet' = QueryReturn(r)
                     /\ pc' = "me_done"
                     /\ UNCHANGED <<req, extents>>
                ELSE IF seen.fm_mapped_extents = 0
                THEN /\ meRet' = MeSome(extents)
                     /\ pc' = "me_done"
                     /\ req' = seen
                     /\ UNCHANGED extents
                ELSE /\ extents' = Pushed(extents, seen)
                     /\ IF HasLastFlag(last.fe_flags)
                        THEN /\ meRet' = MeSome(extents')
                             /\ pc' = "me_done"
                             /\ req' = seen
                        ELSE /\ req' = [seen EXCEPT !.fm_start =
                                           last.fe_logical + last.fe_length]
                             /\ UNCHANGED <<meRet, pc>>
    /\ UNCHANGED <<fileExtents, reqShared, other, cur, segs, opts, src, srcMap, stBlocks,
                   dst, dstMap, metaLen, inpos, outpos, result, pos, nextHole,
                   caller, cbLen, written, lastRet, call, reflinkRet,
                   cloneCalls, cloneRet, statCalls, segCalls, cfbCalls,
                   updCalls, reported, fin, st, psRet>>

NextExt == MapExtentsQuery

SpecExt == InitExt /\ [][NextExt]_vars

\* map_extents runs on its thread until it returns.
FairSpecExt == SpecExt /\ WF_vars(NextExt)

\* ============================================ two handles, on two threads
\* Two CopyHandles for different file pairs share opts.  Each runs its copy
\* and its teardown on its own thread; the variables of the handle hold the
\* handle whose thread runs, and `other` the handle whose thread waits.

\* A handle whose cursors are those of the other handle's descriptors.
HandleState_SharedCursors ==
    [src |-> src, srcMap |-> srcMap, stBlocks |-> stBlocks, dst |-> dst,
     dstMap |-> dstMap, metaLen |-> metaLen, inpos |-> other.inpos,
     outpos |-> other.outpos, pc |-> pc, result |-> result, pos |-> pos,
     nextHole |-> nextHole, caller |-> caller, cbLen |-> cbLen,
     written |-> written, lastRet |-> lastRet, call |-> call,
     reflinkRet |-> reflinkRet, cloneCalls |-> cloneCalls,
     cloneRet |-> cloneRet, statCalls |-> statCalls, segCalls |-> segCalls,
     cfbCalls |-> cfbCalls, updCalls |-> updCalls, reported |-> reported,
     fin |-> fin, segs |-> segs]

\* What a CopyHandle owns and what its thread holds: the descriptors with
\* their files and cursors, the metadata, and the locals of its calls.
HandleState ==
    [src |-> src, srcMap |-> srcMap, stBlocks |-> stBlocks, dst |-> dst,
     dstMap |-> dstMap, metaLen |-> metaLen, inpos |-> inpos,
     outpos |-> outpos, pc |-> pc, result |-> result, pos |-> pos,
     nextHole |-> nextHole, caller |-> caller, cbLen |-> cbLen,
     written |-> written, lastRet |-> lastRet, call |-> call,
     reflinkRet |-> reflinkRet, cloneCalls |-> cloneCalls,
     cloneRet |-> cloneRet, statCalls |-> statCalls, segCalls |-> segCalls,
     cfbCalls |-> cfbCalls, updCalls |-> updCalls, reported |-> reported,
     fin |-> fin, segs |-> segs]

\* A second handle before CopyHandle::new: its source has the allocation
\* map m and st_blocks b, and content that differs from every first source.
StartState(m, b) ==
    [src |-> [i \in 1..Len(m) |-> IF m[i] THEN MaxLen + 1 + i ELSE 0],
     srcMap |-> m, stBlocks |-> b, dst |-> <<>>, dstMap |-> <<>>,
     metaLen |-> 0, inpos |-> 0, outpos |-> 0, pc |-> "start",
     result |-> NoResult, pos |-> 0, nextHole |-> 0, caller |-> "none",
     cbLen |-> 0, written |-> 0, lastRet |-> 0, call |-> NoCall,
     reflinkRet |-> NoResult, cloneCalls |-> 0, cloneRet |-> NoResult,
     statCalls |-> 0, segCalls |-> 0, cfbCalls |-> 0, updCalls |-> 0,
     reported |-> 0, fin |-> NoFin, segs |-> <<>>]

LayoutsTwo == UNION {[1..n -> BOOLEAN] : n \in 1..MaxLenTwo}

\* The first handle's source is any layout up to MaxLenTwo; the second's is
\* two cells of data that the classifier takes for sparse.
InitTwo ==
    /\ opts = [reflink |-> "Auto", no_perms |-> FALSE, fsync |-> FALSE,
               batch_size |-> Unit]
    /\ srcMap \in LayoutsTwo
    /\ src = Content(srcMap)
    /\ stBlocks \in {0, MaxBlocks}
    /\ dst = <<>> /\ dstMap = <<>>
    /\ pc = "start"
    /\ st = NoStat /\ psRet = NoResult
    /\ Quiet
    /\ ExtQuiet
    /\ other = StartState(<<TRUE, TRUE>>, 0)
    /\ cur = 1

\* The scheduler takes the processor from the running thread and gives it to
\* the waiting one, which has not finished.
Switch ==
    /\ other.pc \notin {"dropped", "nohandle"}
    /\ cur' = 3 - cur
    /\ other' = HandleState
    /\ src' = other.src /\ srcMap' = other.srcMap
    /\ stBlocks' = other.stBlocks /\ dst' = other.dst
    /\ dstMap' = other.dstMap /\ metaLen' = other.metaLen
    /\ inpos' = other.inpos /\ outpos' = other.outpos /\ pc' = other.pc
    /\ result' = other.result /\ pos' = other.pos
    /\ nextHole' = other.nextHole /\ caller' = other.caller
    /\ cbLen' = other.cbLen /\ written' = other.written
    /\ lastRet' = other.lastRet /\ call' = other.call
    /\ reflinkRet' = other.reflinkRet /\ cloneCalls' = other.cloneCalls
    /\ cloneRet' = other.cloneRet /\ statCalls' = other.statCalls
    /\ segCalls' = other.segCalls /\ cfbCalls' = other.cfbCalls
    /\ updCalls' = other.updCalls /\ reported' = other.reported
    /\ fin' = other.fin /\ segs' = other.segs
    /\ UNCHANGED <<extVars, opts, st, psRet>>

NextTwo == Next \/ Switch

SpecTwo == InitTwo /\ [][NextTwo]_vars

\* ==================================================================== claims
Returned == pc \in {"returned", "dropped"} /\ result # NoResult

Succeeded == Returned /\ result.tag = "ok"

\* C1: for a source that is not classified sparse and whose reflink attempt
\* reports false, a copy_file that succeeds returns exactly the source's byte
\* length (the length snapshot taken at open) and leaves the destination equal
\* to the source at every offset, whatever short counts copy_file_bytes
\* returned on the way.
C1_DenseCopyExact ==
    (Succeeded /\ reflinkRet = Ok(0) /\ ~ProbablySparse(stBlocks, Size(src)))
        => /\ result.val = Size(src)
           /\ result.val = metaLen
           /\ Len(dst) = Len(src)
           /\ \A i \in 1..Len(src) : dst[i] = src[i]

\* A dense copy of a source with data that took several short transfers.
C1_Witness ==
    /\ Succeeded /\ reflinkRet = Ok(0)
    /\ ~ProbablySparse(stBlocks, Size(src))
    /\ cfbCalls >= 2 /\ Len(src) >= 2
    /\ \E i \in 1..Len(src) : srcMap[i]

\* C2: for a source classified sparse, whatever its layout of data and holes,
\* after a successful copy_file into the freshly created, pre-sized destination
\* the destination has the source's length and reads the same byte as the
\* source at every offset, zero inside every source hole.
C2_SparseCopyExact ==
    (Succeeded /\ reflinkRet = Ok(0) /\ ProbablySparse(stBlocks, Size(src)))
        => /\ Len(dst) = Len(src)
           /\ \A i \in 1..Len(src) :
                /\ dst[i] = src[i]
                /\ ~srcMap[i] => dst[i] = 0

\* A sparse copy of a source that starts with a hole, holds data and ends with
\* a hole.
C2_Witness ==
    /\ Succeeded /\ reflinkRet = Ok(0)
    /\ ProbablySparse(stBlocks, Size(src))
    /\ segCalls >= 2 /\ Len(src) >= 3
    /\ ~srcMap[1] /\ ~srcMap[Len(src)]
    /\ \E i \in 1..Len(src) : srcMap[i]

\* C3: under Always and Auto the clone attempt decides what try_reflink
\* returns: a clone that succeeds gives Ok(true) under both; a clone reported
\* as unsupported gives Ok(false) under Auto and the ReflinkFailed error naming
\* both files under Always; any other clone failure is returned as that error
\* under both, never as Ok(false) and never as ReflinkFailed.
C3_ReflinkDecision ==
    (opts.reflink \in {"Always", "Auto"} /\ reflinkRet # NoResult)
        => /\ cloneRet # NoResult
           /\ cloneRet = Ok(1) => reflinkRet = Ok(1)
           /\ (cloneRet = Ok(0) /\ opts.reflink = "Auto") => reflinkRet = Ok(0)
           /\ (cloneRet = Ok(0) /\ opts.reflink = "Always")
                => reflinkRet = Err("ReflinkFailed(infd->outfd)")
           /\ cloneRet.tag = "err"
                => /\ reflinkRet = cloneRet
                   /\ reflinkRet # Ok(0)
                   /\ reflinkRet # Err("ReflinkFailed(infd->outfd)")

\* Always, and the clone is not supported for the pair.
C3_Witness ==
    /\ opts.reflink = "Always" /\ cloneRet = Ok(0)
    /\ Returned /\ result = Err("ReflinkFailed(infd->outfd)")

\* C4: under Never the clone primitive is never invoked: try_reflink returns
\* Ok(false) with no clone attempt, and copy_file goes straight on to classify
\* the source and copy its bytes.
C4_NeverNoClone ==
    opts.reflink = "Never"
        => /\ cloneCalls = 0
           /\ cloneRet = NoResult
           /\ reflinkRet # NoResult => (reflinkRet = Ok(0) /\ statCalls = 1)

\* Never, and a non-empty source copied in full.
C4_Witness ==
    /\ opts.reflink = "Never"
    /\ Succeeded /\ Len(src) >= 1 /\ cfbCalls >= 1
    /\ dst = src

\* C5: when try_reflink returns Ok(true), copy_file returns the source's
\* length at once: no classification, no copy_file_bytes, no
\* next_sparse_segments, no cursor moved, no report to the updater.  When
\* try_reflink returns an error, copy_file returns that error and no byte is
\* transferred.
C5_ReflinkShortCircuit ==
    /\ reflinkRet = Ok(1)
        => /\ Returned /\ result = Ok(metaLen)
           /\ statCalls = 0 /\ cfbCalls = 0 /\ segCalls = 0
           /\ call = NoCall
           /\ inpos = 0 /\ outpos = 0
           /\ updCalls = 0 /\ reported = 0
    /\ reflinkRet.tag = "err"
        => /\ Returned /\ result = reflinkRet
           /\ statCalls = 0 /\ cfbCalls = 0 /\ segCalls = 0
           /\ call = NoCall
           /\ dst = Zeros(Len(dst))
           /\ \A i \in 1..Len(dstMap) : ~dstMap[i]

\* A clone of a non-empty source succeeded.
C5_Witness ==
    /\ reflinkRet = Ok(1) /\ cloneRet = Ok(1)
    /\ Len(src) >= 1 /\ dst = src
    /\ pc = "returned"

\* C6: copy_file_bytes and copy_file_offset run the user-space copy exactly
\* when the kernel copy fails with ENOSYS, EPERM or EXDEV; any other kernel
\* error is returned and the user-space copy is not run; a kernel success is
\* returned as its byte count and the user-space copy is not run.
C6_FallbackClosedSet ==
    call.fn # "none"
        => /\ call.uspace <=> (call.kernel.tag = "err"
                               /\ call.kernel.err \in {"ENOSYS", "EPERM", "EXDEV"})
           /\ (call.kernel.tag = "err"
               /\ call.kernel.err \notin {"ENOSYS", "EPERM", "EXDEV"})
                => (call.ret = call.kernel /\ ~call.uspace)
           /\ call.kernel.tag = "ok"
                => (call.ret = call.kernel /\ ~call.uspace)

\* copy_file_offset fell back on EXDEV and the user-space copy moved bytes.
C6_Witness ==
    /\ call.fn = "copy_file_offset"
    /\ call.kernel = Err("EXDEV") /\ call.uspace
    /\ call.ret.tag = "ok" /\ call.ret.val > 0

\* C7: the loop of copy_bytes does not go on for ever without progress: once
\* in the loop, copy_bytes leaves it, by returning or by failing, also when
\* copy_file_bytes returns Ok(0) while bytes remain (here: the source was
\* truncated after the length snapshot).
C7_CopyBytesTerminates ==
    (pc = "copy_bytes") ~> (pc \notin {"copy_bytes", "update"})

\* C8: probably_sparse(f) is true if and only if allocated_blocks(f) * 512 <
\* length(f), for every block count and every byte length.
C8_SparseIffBytes ==
    psRet.tag = "ok"
        => (psRet.val = 1 <=> st.blocks * ST_NBLOCKSIZE < st.size)

\* C8, amended: probably_sparse(f) is true if and only if the length holds at
\* least one whole 512-byte unit more than the allocated blocks, that is
\* (allocated_blocks(f) + 1) * 512 <= length(f); for a length that is a
\* multiple of 512 this is allocated_blocks(f) * 512 < length(f).
C8_SparseIffWholeUnits ==
    psRet.tag = "ok"
        => /\ psRet.val = 1 <=> (st.blocks + 1) * ST_NBLOCKSIZE <= st.size
           /\ st.size % ST_NBLOCKSIZE = 0
                => (psRet.val = 1 <=> st.blocks * ST_NBLOCKSIZE < st.size)

\* A file one byte short of two units with one block allocated: not sparse.
C8_Witness ==
    /\ psRet = Ok(0)
    /\ st.blocks = 1 /\ st.size = 2 * ST_NBLOCKSIZE - 1

\* C9: whenever a handle is torn down - after copy_file succeeded, after it
\* failed, or without it ever being called - finalisation has run, teardown
\* completes, and the result copy_file returned is what it was; an error of
\* finalisation is logged and nothing else.
C9_FinalisationAtTeardown ==
    /\ [](pc = "dropped" => fin.ran)
    /\ [][pc' = "dropped"
            => /\ pc \in {"ready", "returned"}
               /\ fin'.ran
               /\ result' = result
               /\ fin'.logged <=> ~fin'.ok]_vars

\* Finalisation failed after a copy that succeeded.
C9_Witness ==
    /\ pc = "dropped" /\ fin.ran /\ fin.logged /\ ~fin.ok
    /\ result.tag = "ok" /\ Len(src) >= 1

\* C10: at every teardown the permissions are copied exactly when no_perms is
\* false and the destination is synced exactly when fsync is true, also when
\* the permission copy fails.
C10_PermsAndSyncAsConfigured ==
    pc = "dropped"
        => /\ fin.perms <=> ~opts.no_perms
           /\ fin.sync <=> opts.fsync

\* C11: map_extents returns Ok(None) exactly when one of its extent queries
\* reported "operation not supported"; a query failing with any other error
\* makes it return that error as Err; and for a file with no extents whose
\* queries all succeed it returns Ok(Some(empty list)), which is not Ok(None).
C11_UnsupportedIffNone ==
    pc = "me_done" =>
        LET lastq == queries[Len(queries)]
        IN  /\ (meRet = MeNone) <=>
                   (\E i \in 1..Len(queries) : queries[i].ret = "EOPNOTSUPP")
            /\ lastq.ret \in FiemapErrnos \ {"EOPNOTSUPP"} =>
                   meRet = MeErr(lastq.ret)
            /\ (fileExtents = <<>> /\ lastq.ret = "ok") =>
                   meRet = MeSome(<<>>) /\ meRet # MeNone

\* map_extents answered Ok(None) for a file that holds extents.
C11_Witness ==
    pc = "me_done" /\ meRet = MeNone /\ fileExtents # <<>>

\* The ranges of the extents fx, in the order the filesystem holds them.
RangesOf(fx) ==
    [i \in 1..Len(fx) |->
        Range(fx[i].fe_logical, fx[i].fe_logical + fx[i].fe_length)]

\* C12: when every query succeeds, map_extents returns Some(list) where list
\* is exactly the file's k extents as ranges [logical, logical + length), in
\* ascending order, none missing and none twice, for every k up to
\* MaxExtents (several batches of PAGE_SIZE).
C12_AllExtentsReturned ==
    (pc = "me_done" /\ \A i \in 1..Len(queries) : queries[i].ret = "ok") =>
        meRet = MeSome(RangesOf(fileExtents))

\* C13: the destination is created or truncated and sized to the source
\* length of the handle's metadata snapshot by CopyHandle::new, before the
\* handle exists; every later change of the destination's content happens on
\* a handle whose destination has that size and keeps it; and when new fails
\* it leaves no handle, writes no data, and nothing is written afterwards.
C13_SizedBeforeWritten ==
    [][/\ (pc = "start" /\ pc' = "ready") =>
              /\ metaLen' = Size(src)
              /\ dst' = Zeros(metaLen' \div Unit)
              /\ dstMap' = Holes(metaLen' \div Unit)
       /\ (pc = "start" /\ pc' = "nohandle") =>
              /\ dst' \in {dst, <<>>}
              /\ cfbCalls' = 0 /\ cloneCalls' = 0
       /\ (pc # "start" /\ dst' # dst) =>
              /\ pc \notin {"start", "nohandle"}
              /\ Size(dst) = metaLen /\ Size(dst') = metaLen
       /\ pc = "nohandle" => pc' = "nohandle" /\ dst' = dst]_vars

\* Bytes have been written to a destination sized at construction.
C13_Witness ==
    /\ pc = "copy_bytes" /\ written > 0
    /\ Size(dst) = metaLen
    /\ \E i \in 1..Len(dst) : dstMap[i]

\* C14: in copy_sparse on a source that does not change, the segments
\* produced satisfy pos <= next_data <= next_hole <= source length at every
\* iteration, each iteration starts where the one before ended, so
\* next_hole of one is at most next_data of the next and the copied ranges
\* are pairwise disjoint; and when the copy has succeeded every allocated
\* cell of the source lies inside one of the ranges.
C14_SegmentsOrderedAndCovering ==
    /\ \A i \in 1..Len(segs) :
          /\ segs[i].pos <= segs[i].next_data
          /\ segs[i].next_data <= segs[i].next_hole
          /\ segs[i].next_hole <= Size(src)
    /\ \A i \in 1..(Len(segs) - 1) :
          /\ segs[i + 1].pos = segs[i].next_hole
          /\ segs[i].next_hole <= segs[i + 1].next_data
    /\ \A i, j \in 1..Len(segs) :
          i < j => segs[i].next_hole <= segs[j].next_data
    /\ (Succeeded /\ segs # <<>>) =>
          \A c \in 1..Len(srcMap) :
              srcMap[c] =>
                  \E i \in 1..Len(segs) :
                      /\ segs[i].next_data <= (c - 1) * Unit
                      /\ c * Unit <= segs[i].next_hole

\* A sparse copy has succeeded over two data ranges with a hole between.
C14_Witness ==
    /\ Succeeded /\ Len(segs) >= 2
    /\ segs[1].next_data < segs[1].next_hole
    /\ segs[1].next_hole < segs[2].next_data
    /\ segs[2].next_data < segs[2].next_hole

\* C15: copy_sparse terminates because every iteration leaves pos strictly
\* larger than it found it, also when the source's length now differs from
\* the length taken at open: each iteration starts at a larger pos than the
\* one before, and the loop is back at its test only with a pos larger than
\* the last iteration's.
C15_SparsePosGrows ==
    /\ \A i \in 1..(Len(segs) - 1) : segs[i].pos < segs[i + 1].pos
    /\ (pc = "copy_sparse" /\ segs # <<>> /\ Len(segs) < MaxCalls) =>
           segs[Len(segs)].pos < pos

\* copy_file took, or is taking, the segmented copy.
OnSparsePath ==
    /\ reflinkRet = Ok(0)
    /\ ProbablySparse(stBlocks, Size(src))
    /\ pc \in {"copy_sparse", "copy_bytes", "update", "returned", "dropped"}

\* C16: during copy_sparse every destination cell that has been written lies
\* inside a range [next_data, next_hole) that next_sparse_segments returned,
\* and every destination cell at the place of a source hole is as the
\* pre-sizing left it: unallocated and reading zero.
C16_HolesNeverWritten ==
    OnSparsePath =>
        \A c \in 1..Len(dstMap) :
            /\ dstMap[c] =>
                   \E i \in 1..Len(segs) :
                       /\ segs[i].next_data <= (c - 1) * Unit
                       /\ c * Unit <= segs[i].next_hole
            /\ (c <= Len(srcMap) /\ ~srcMap[c]) => (~dstMap[c] /\ dst[c] = 0)

\* A sparse copy has written data in several transfers and has left a hole
\* of the source unwritten.
C16_Witness ==
    /\ OnSparsePath /\ Succeeded /\ cfbCalls >= 2
    /\ \E c \in 1..Len(dstMap) : dstMap[c]
    /\ \E c \in 1..Len(srcMap) : ~srcMap[c] /\ ~dstMap[c]

\* C17: whatever probably_sparse answered for the source, right or wrong, a
\* copy_file that did not clone and succeeded returns the source length and
\* leaves the pre-sized destination with the source's content: the segmented
\* copy and the dense copy of the same source give the same result.
C17_PathDoesNotChangeResult ==
    \A sparse \in BOOLEAN :
        (/\ Succeeded /\ reflinkRet = Ok(0)
         /\ ProbablySparse(stBlocks, Size(src)) = sparse)
            => /\ result = Ok(Size(src))
               /\ dst = src

\* A false positive: a source with no hole was classified sparse, and its
\* segmented copy succeeded.
C17_Witness ==
    /\ OnSparsePath /\ Succeeded /\ segs # <<>>
    /\ Len(src) >= 2
    /\ \A c \in 1..Len(srcMap) : srcMap[c]

\* What a handle that ran alone leaves when its copy succeeded (C5, C17):
\* the source's length as result and the source's content in its destination.
AsAlone(h) ==
    (h.pc \in {"returned", "dropped"} /\ h.result.tag = "ok") =>
        /\ h.result = Ok(Size(h.src))
        /\ h.dst = h.src

\* C18: with two handles for different file pairs on two threads, under
\* every interleaving of their steps, each handle whose copy succeeded has
\* the result and the destination content it has when it runs alone; a step
\* of the running handle leaves the waiting handle's files, descriptors and
\* cursors as they were, and a change of thread carries both handles'
\* states over unchanged.
C18_HandlesIndependent ==
    /\ [](AsAlone(HandleState) /\ AsAlone(other))
    /\ [][/\ cur' = cur => other' = other
          /\ cur' # cur => (other' = HandleState /\ HandleState' = other)]_vars

\* Both handles were copying at once, each with bytes written, and the
\* running one has now succeeded.
C18_Witness ==
    /\ Succeeded /\ cfbCalls >= 2 /\ dst = src
    /\ other.pc = "update" /\ other.written > 0 /\ other.cfbCalls >= 1
    /\ other.segs # <<>>

\* C19: copy_file_offset(infd, outfd, n, off) returning Ok(count) has
\* count <= n, has put the source's bytes [off, off + count) at the same
\* offsets of the destination, and has left every destination byte outside
\* that range as it was (bytes between the old end and off read zero, and
\* the file grows only to hold what was written); returning an error it has
\* left the destination alone; and when the kernel call did the transfer
\* the cursors of both descriptors are where they were.
C19_OffsetCopyFrame ==
    [][call'.fn = "copy_file_offset" =>
          LET off == pos'
              count == IF call'.ret.tag = "ok" THEN call'.ret.val ELSE 0
              first == (off \div Unit) + 1
              last == (off + count) \div Unit
          IN  /\ count <= cbLen'
              /\ off + count <= Max(off, Size(src))
              /\ Len(dst') = IF count = 0 THEN Len(dst)
                             ELSE Max(Len(dst), last)
              /\ \A i \in 1..Len(dst') :
                    dst'[i] = IF first <= i /\ i <= last THEN src[i]
                              ELSE IF i <= Len(dst) THEN dst[i]
                              ELSE 0
              /\ ~call'.uspace => (inpos' = inpos /\ outpos' = outpos)]_vars

\* The kernel copied bytes into the middle of a destination holding other
\* bytes, with both cursors elsewhere.
C19_Witness ==
    /\ call.fn = "copy_file_offset" /\ ~call.uspace
    /\ call.ret.tag = "ok" /\ call.ret.val > 0
    /\ pos > 0 /\ inpos # pos /\ outpos # pos
    /\ pos + call.ret.val < Size(dst)
    /\ dst[1] = 9 /\ dst[Len(dst)] = 9

\* The bytes of the first n segments of copy_sparse: what the calls of
\* copy_bytes made for them were asked to copy.
RECURSIVE SegBytes(_)
SegBytes(n) ==
    IF n = 0 THEN 0
    ELSE SegBytes(n - 1) + (segs[n].next_hole - segs[n].next_data)

\* What the calls of copy_bytes that returned before the present one were
\* asked to copy.
Before == IF caller = "sparse" THEN SegBytes(Len(segs) - 1) ELSE 0

\* C20: in copy_bytes every call of copy_file_bytes asks for at most
\* min(remaining, batch_size) bytes; the updater is called once after each
\* successful call, with the count that call returned; when copy_bytes
\* succeeds the counts reported during it add up to what it returns, which is
\* the length it was asked for; and an error of copy_file_bytes or of the
\* updater is what copy_file returns, with no transfer and no report after.
C20_BatchedAndReported ==
    /\ [](/\ pc = "copy_bytes" =>
               /\ updCalls = cfbCalls
               /\ reported = Before + written
          /\ pc = "update" =>
               /\ updCalls + 1 = cfbCalls
               /\ call.ret = Ok(lastRet)
               /\ reported + lastRet = Before + written
          /\ (Succeeded /\ caller = "dense") =>
               /\ updCalls = cfbCalls
               /\ reported = result.val /\ result.val = cbLen
          /\ (OnSparsePath /\ (pc = "copy_sparse" \/ Succeeded)) =>
               /\ updCalls = cfbCalls
               /\ reported = SegBytes(Len(segs)))
    /\ [][/\ cfbCalls' # cfbCalls =>
               /\ call'.bytes <= Min(cbLen - written, opts.batch_size)
               /\ call'.ret.tag = "err" =>
                      (pc' = "returned" /\ result' = call'.ret)
          /\ updCalls' # updCalls =>
               /\ updCalls' = updCalls + 1
               /\ reported' = reported + call.ret.val
               /\ (pc' \in {"copy_sparse", "returned"} /\ result'.tag # "err")
                      => written = cbLen
          /\ result.tag = "err" =>
               /\ dst' = dst /\ cfbCalls' = cfbCalls
               /\ updCalls' = updCalls /\ result' = result]_vars

\* A dense copy longer than the batch size has succeeded after several
\* calls, one of them short of its request.
C20_Witness ==
    /\ Succeeded /\ caller = "dense"
    /\ opts.batch_size < cbLen /\ opts.batch_size > Unit
    /\ cfbCalls >= 2 /\ updCalls = cfbCalls
    /\ (cfbCalls - 1) * opts.batch_size > cbLen

\* The batch the filesystem maps for the i-th query map_extents made.
BatchOf(i) == Fiemap(fileExtents, queries[i].fm_start, PAGE_SIZE)

DataFrom(p) == {o \in Offsets(src) : o >= p /\ o < Size(src) /\ srcMap[Cell(o)]}
HolesFrom(p) == {o \in Offsets(src) : o >= p /\ o < Size(src) /\ ~srcMap[Cell(o)]}

\* The least offset of a set that is not empty.
Least(S) == CHOOSE o \in S : \A q \in S : o <= q

\* C22: next_sparse_segments(infd, outfd, pos) that succeeds returns (d, h)
\* where d is the first offset of data at or after pos, or the file's length
\* when there is none, and h is the first offset of a hole at or after d, or
\* the file's length when there is none; "no such offset" is never returned
\* as an error; both cursors are left at d; and a call that fails returns
\* the error and no segment.
C22_NextSegmentFound ==
    call.fn = "next_sparse_segments" =>
        IF call.ret.tag = "ok"
        THEN LET d == segs[1].next_data
                 h == segs[1].next_hole
             IN  /\ segs[1].pos = pos
                 /\ d = IF DataFrom(pos) = {} THEN Size(src)
                        ELSE Least(DataFrom(pos))
                 /\ h = IF HolesFrom(d) = {} THEN Size(src)
                        ELSE Least(HolesFrom(d))
                 /\ inpos = d /\ outpos = d
        ELSE call.ret.err # "ENXIO" /\ segs = <<>>

\* A call from inside a hole found data further on and a hole after it,
\* before the end of the file, and moved both cursors there.
C22_Witness ==
    /\ call.fn = "next_sparse_segments" /\ call.ret.tag = "ok"
    /\ pos < segs[1].next_data
    /\ segs[1].next_data < segs[1].next_hole
    /\ segs[1].next_hole < Size(src)
    /\ inpos = segs[1].next_data /\ outpos = segs[1].next_data

=============================================================================
